---- MODULE Spec2Model ----
(***************************************************************************)
(* Model of unified_stack_manager/core/rollback.py: RollbackManager, its   *)
(* protected_operation context manager (snapshot, work, commit-or-restore) *)
(* and the retention sweep _cleanup_old_backups.                           *)
(*                                                                         *)
(* The filesystem is a map from a small pool of paths to nodes; the backup *)
(* directory is a map from artifact names to nodes.  A node is absent, a   *)
(* file (content, mtime) or a directory (entries, mtime).                  *)
(*                                                                         *)
(* One behaviour is one call of protected_operation.  The disk may fail    *)
(* any copy, stat or unlink (OSError); a failed backup copy leaves the     *)
(* backup directory as it was.  The work mutates the paths it declared as  *)
(* targets.                                                                *)
(***************************************************************************)
EXTENDS Integers, Sequences, FiniteSets, TLC

\* ---------------------------------------------------------------- bounds
MaxTargets == 2       \* longest targets list handed to protected_operation
MaxWorkSteps == 2     \* filesystem mutations the work performs before it ends
MaxTicks == 1         \* seconds the clock may advance during one behaviour
MaxNameLen == 3       \* characters in a site name given to validate_site_config

\* ------------------------------------------------------ program constants
SecondsPerDay == 86400     \* rollback.py:74  (days * 86400)
RetentionDays == 7         \* rollback.py:51  _cleanup_old_backups(days=7)

\* ------------------------------------------------------------ the clock
Now0 == 10 * SecondsPerDay                 \* time.time() when the behaviour starts
OldTime == Now0 - 8 * SecondsPerDay        \* last modified 8 days before
EdgeTime == Now0 - RetentionDays * SecondsPerDay   \* exactly on the cutoff at Now0
RecentTime == Now0 - SecondsPerDay         \* last modified 1 day before

\* datetime.now().strftime('%Y%m%d_%H%M%S'): the date part and the
\* time-of-day part, at one-second resolution.
FormatTimestamp(t) == <<t \div SecondsPerDay, t % SecondsPerDay>>

\* ------------------------------------------------------------ filesystem
\* Paths are <<parent directory, final segment>>.  P1 and P2 live in
\* different directories and share the final segment.
P1 == <<"a", "x">>
P2 == <<"b", "x">>
P3 == <<"a", "y">>
Paths == {P1, P2, P3}
PathName(p) == p[2]                        \* pathlib's Path.name
Leaves == {PathName(p) : p \in Paths}
EntryNames == {"e"} \cup Leaves            \* names of entries inside a directory
WorkEntryNames == {"e"}                    \* the entries the work writes or deletes

NoEntries == [n \in EntryNames |-> 0]      \* 0: no such entry
Absent == [kind |-> "absent", content |-> 0, entries |-> NoEntries, mtime |-> 0]
File(c, m) == [kind |-> "file", content |-> c, entries |-> NoEntries, mtime |-> m]
Dir(es, m) == [kind |-> "dir", content |-> 0, entries |-> es, mtime |-> m]
Truncated(m) == File(0, m)                 \* a file whose rewrite stopped half way

Exists(node) == node.kind # "absent"       \* Path.exists()
IsDir(node) == node.kind = "dir"           \* Path.is_dir()

\* What a reader of the path sees: kind, bytes and tree, not the metadata.
Data(node) == [kind |-> node.kind, content |-> node.content, entries |-> node.entries]

OpNames == {"op"}
\* backup_dir / f"{backup_id}_{target.name.replace('/', '_')}" where
\* backup_id = f"{operation_name}_{timestamp}".  Path.name never holds a
\* separator, so the replace leaves the final segment as it is.
BackupPath(op, ts, target) == [op |-> op, ts |-> ts, leaf |-> PathName(target)]

\* ------------------------------------------------------ snapshot (l.35-45)
\* shutil.copy2(target, backup_path): the bytes and the metadata (mtime) of
\* the source.  Onto an existing directory it copies INTO that directory,
\* under the source's own name; onto an existing file it overwrites.
Copy2Into(st, bp, target, src) ==
  IF bp \in DOMAIN st /\ IsDir(st[bp])
  THEN [st EXCEPT ![bp] = Dir([st[bp].entries EXCEPT ![PathName(target)] = src.content],
                              st[bp].mtime)]
  ELSE [a \in DOMAIN st \cup {bp} |-> IF a = bp THEN File(src.content, src.mtime) ELSE st[a]]

\* shutil.copytree(target, backup_path): the tree, then copystat of the
\* directory itself.  The destination must not exist.
CopyTreeInto(st, bp, src) ==
  [a \in DOMAIN st \cup {bp} |-> IF a = bp THEN Dir(src.entries, src.mtime) ELSE st[a]]

\* The copy raises OSError whatever the disk does: the backup directory is
\* missing, or copytree finds its destination already there.
\* A copy that makes the directories it is missing: it fails on a clash only.
CopyFailsOnClash(stExists, st, bp, src) == IsDir(src) /\ bp \in DOMAIN st
CopyMustFail(stExists, st, bp, src) ==
  \/ ~stExists
  \/ IsDir(src) /\ bp \in DOMAIN st

SnapshotCopy(st, bp, target, src) ==
  IF IsDir(src) THEN CopyTreeInto(st, bp, src) ELSE Copy2Into(st, bp, target, src)

\* ------------------------------------------------------- restore (l.58-67)
\* The branch is chosen by what the ORIGINAL path is now (original.is_dir()),
\* not by what was backed up.
RestoreTakesDirBranch(cur) == IsDir(cur)

\* Does the restore of one snapshot complete when the disk itself is healthy?
\* copytree needs a directory source, copy2 a regular-file source.
RestoreCanSucceed(st, bp, cur) ==
  /\ bp \in DOMAIN st
  /\ IF RestoreTakesDirBranch(cur) THEN IsDir(st[bp]) ELSE st[bp].kind = "file"

\* The original path after a completed restore.
Restored(st, bp, cur) ==
  IF RestoreTakesDirBranch(cur)
  THEN Dir(st[bp].entries, st[bp].mtime)      \* rmtree, then copytree
  ELSE File(st[bp].content, st[bp].mtime)     \* copy2 over the original

\* A restore that removes the original, whatever it is, before it copies.
AfterFailedRestoreUnlinkFirst(cur, stage, t) ==
  IF stage = "remove" THEN cur ELSE Absent
\* The original path after a restore that raised OSError.  stage says where:
\*  "source": the backup could not be read (missing, wrong kind, I/O error)
\*  "remove": rmtree of the original raised
\*  "write" : the copy onto the original raised after it had started
AfterFailedRestore(cur, stage, t) ==
  IF RestoreTakesDirBranch(cur)
  THEN CASE stage = "remove" -> cur                  \* rmtree raised
         [] stage = "source" -> Absent               \* rmtree ran, copytree did not start
         [] stage = "write" -> Dir(NoEntries, t)     \* copytree stopped after makedirs
  ELSE IF stage = "write" THEN Truncated(t) ELSE cur \* open(dst, 'wb') truncates

\* --------------------------------------------------------- sweep (l.71-81)
Cutoff(t, days) == t - days * SecondsPerDay          \* time.time() - days*86400
IsOld(node, cut) == node.mtime < cut                 \* st_mtime < cutoff
\* backup.unlink() removes a file; on a directory it raises OSError.
UnlinkRaises(node) == IsDir(node)
\* A sweep whose except clause lets the filesystem error through.
SweepErrorEscapes == FALSE
\* except (IOError, OSError) around the whole for loop: the error is reported
\* and _cleanup_old_backups returns.
SweepErrorCaught == TRUE

\* ------------------------------------------------------ exceptions (l.53)
\* "Exception": an ordinary exception; "BaseException": KeyboardInterrupt,
\* SystemExit, GeneratorExit; "OSError": a filesystem error (an Exception).
WorkErrors == {"Exception", "BaseException"}
Catches(err) == err \in {"Exception", "OSError"}     \* except Exception as e
\* A rollback that ends by raising an error of its own.
RaiseRollbackError(err) == "OSError"
Reraise(err) == err                                  \* the bare raise, l.69
\* A handler written as finally: the restores run however the body ended.
AfterWorkFinally(r) ==
  IF r = "ok" \/ Catches(r) THEN "rollingback" ELSE "done"
\* where control goes when the body of the try (l.48-51) ends with result r
AfterWork(r) ==
  IF r = "ok" THEN "committing" ELSE IF Catches(r) THEN "rollingback" ELSE "done"

\* ------------------------------------------------------------------ state
VARIABLES
  fs,              \* Paths -> node: the filesystem outside the backup directory
  storeExists,     \* does self.backup_dir exist (False: its mkdir was refused)
  store,           \* artifact name -> node: the content of self.backup_dir
  createdAt,       \* artifact name -> time its copy was made (history)
  now, ticks,      \* the clock, and how often it advanced
  pc,              \* idle, snapshotting, executing, committing, rollingback, done;
                   \* under SpecLife also new (not constructed) and failed (__init__ raised)
  operation_name, timestamp, targets,
  idx,             \* position of the for loop (l.35 or l.58), from 1
  backups,         \* the list backups: <<target, backup_path>> pairs
  workSteps, workResult,   \* how the body of the with statement went
  caught,          \* the error the except clause of l.53 is handling
  cutoff, toSweep, \* the sweep's cutoff and the artifacts glob has yet to yield
  outcome, raised, \* how protected_operation ended, and with which error
  warnings,        \* kinds of messages printed
  entryFs, workFs, \* fs when the call was entered, and when the work ended (history)
  restoreLog,      \* one record per restore attempted, in order, with the kind of
                   \* the original before (was) and after (is) it (history)
  examined, evicted, \* artifacts the sweep looked at, and those it deleted (history)
  sweepRaised,     \* artifacts on which the sweep raised OSError (history)
  snapLog,         \* what the backup loop did with each target, in order (history)
  trail,           \* the values pc has taken, in order (history)
  earlier,         \* the backup_id of every call that has ended (history)
  mpc,             \* where the stack manager's method is: off (no method is modelled),
                   \* ready, body (at its with statement), failed and succeeded (the
                   \* body has raised, has ended), returned
  method,          \* the method called: install, create, switch, win_install, ...
  dryRun,          \* self.dry_run
  args,            \* the inputs of the call the method needs later
  mstep,           \* the step of the with body the method is at, from 1
  events,          \* the effects the method has had outside the filesystem, in order
  mresult,         \* none, True, False, or the name of the error the method raised
  password,        \* self.last_generated_password
  stack,           \* the protected_operation calls suspended at their yield
  vreq, vres       \* the input given to a validator, and what it returned

vars == <<fs, storeExists, store, createdAt, now, ticks, pc, operation_name, timestamp,
          targets, idx, backups, workSteps, workResult, cutoff, toSweep, outcome, raised,
          warnings, entryFs, workFs, restoreLog, examined, evicted, caught, sweepRaised,
          snapLog, trail, earlier,
          mpc, method, dryRun, args, mstep, events, mresult, password, stack, vreq, vres>>

mgrVars == <<mpc, method, dryRun, args, mstep, events, mresult, password, stack, vreq, vres>>
invVars == <<operation_name, timestamp, targets, earlier, mgrVars>>
histVars == <<entryFs, workFs, restoreLog, examined, evicted, sweepRaised>>
sweepVars == <<cutoff, toSweep>>
endVars == <<outcome, raised, caught>>

\* ------------------------------------------------------------------- Init
\* No method of a stack manager and no validator is part of the behaviour.
NoRequest == [kind |-> "none"]
NoManager ==
  /\ mpc = "off" /\ method = "none" /\ dryRun = FALSE /\ args = NoRequest
  /\ mstep = 0 /\ events = <<>> /\ mresult = "none" /\ password = "None"
  /\ stack = <<>> /\ vreq = NoRequest /\ vres = NoRequest

\* The state after RollbackManager.__init__ (l.12-17), before any call.
\* Every path starts with bytes of its own, so that a copy of one path is
\* told from a copy of another; the work writes bytes found nowhere before.
ContentOf(p) == CASE p = P1 -> 1 [] p = P2 -> 2 [] p = P3 -> 3
WorkContent == 1 + Cardinality(Paths)
OneEntry(p) == [NoEntries EXCEPT !["e"] = ContentOf(p)]
InitNodes(p) == {Absent, File(ContentOf(p), OldTime), File(ContentOf(p), RecentTime),
                 Dir(OneEntry(p), OldTime)}
\* The trees a behaviour may start from: an old file or directory at P1, and
\* beside it a path of the same name (P2) and a path of another name (P3).
InitTrees ==
  {t \in [Paths -> UNION {InitNodes(p) : p \in Paths}] :
     /\ \A p \in Paths : t[p] \in InitNodes(p)
     /\ t[P1] \in {File(ContentOf(P1), OldTime), Dir(OneEntry(P1), OldTime)}
     /\ t[P2] # File(ContentOf(P2), OldTime)
     /\ t[P3] \in {Absent, File(ContentOf(P3), OldTime)}}

\* An artifact an earlier, committed invocation left in the backup directory.
\* made: when it was copied; node: what was copied (copy2 and copytree keep
\* the mtime of the source).
LeftOver(made, leaf, node) ==
  [name |-> [op |-> "op", ts |-> FormatTimestamp(made), leaf |-> leaf],
   made |-> made, node |-> node]
LeftOvers ==
  { LeftOver(OldTime, "x", File(ContentOf(P1), OldTime)),     \* past the retention
    LeftOver(EdgeTime, "x", File(ContentOf(P1), EdgeTime)),   \* on the cutoff at Now0
    LeftOver(RecentTime, "y", File(ContentOf(P3), RecentTime)) }   \* yesterday's
StoreOf(arts) == [a \in {x.name : x \in arts} |-> (CHOOSE x \in arts : x.name = a).node]
MadeOf(arts) == [a \in {x.name : x \in arts} |-> (CHOOSE x \in arts : x.name = a).made]

TargetLists == UNION {[1..n -> Paths] : n \in 0..MaxTargets}

Init ==
  /\ \E arts \in {{}, LeftOvers} :
       /\ store = StoreOf(arts)
       /\ createdAt = MadeOf(arts)
       /\ storeExists \in (IF arts = {} THEN BOOLEAN ELSE {TRUE})
       /\ fs \in (IF arts = {} THEN InitTrees
                  ELSE {[p \in Paths |-> IF p = P1 THEN File(ContentOf(p), RecentTime) ELSE Absent]})
  /\ now = Now0 /\ ticks = 0
  /\ pc = "idle"
  /\ operation_name = "" /\ timestamp = <<0, 0>> /\ targets = <<>>
  /\ idx = 0 /\ backups = <<>>
  /\ workSteps = 0 /\ workResult = "none"
  /\ cutoff = 0 /\ toSweep = {}
  /\ outcome = "none" /\ raised = "none" /\ caught = "none"
  /\ warnings = {}
  /\ entryFs = fs /\ workFs = fs
  /\ restoreLog = <<>> /\ examined = {} /\ evicted = {} /\ sweepRaised = {}
  /\ snapLog = <<>> /\ trail = <<"idle">> /\ earlier = {}
  /\ NoManager

\* pc moves to the value to.
Step(to) == pc' = to /\ trail' = Append(trail, to)

\* ------------------------------------------------------------ the clock
\* Time passes between the construction of the manager and the call.
Tick ==
  /\ ticks < MaxTicks
  /\ pc = "idle"
  /\ now' = now + 1 /\ ticks' = ticks + 1
  /\ UNCHANGED <<fs, storeExists, store, createdAt, pc, trail, invVars, idx, backups, snapLog, workSteps,
                 workResult, sweepVars, endVars, warnings, histVars>>

\* ------------------------------------------- protected_operation, l.29-31
\* A list kept from one call to the next.
KeptBackups(old) == old
\* l.31: backups = [], a list of the call's own, whatever an earlier call
\* (old) had gathered.
NewBackups(old) == <<>>

Enter(op, tgts) ==
  /\ pc = "idle"
  /\ Step("snapshotting")
  /\ operation_name' = op
  /\ timestamp' = FormatTimestamp(now)
  /\ targets' = tgts
  /\ idx' = 1 /\ backups' = NewBackups(backups)
  /\ entryFs' = fs /\ snapLog' = <<>>
  /\ UNCHANGED <<fs, storeExists, store, createdAt, now, ticks, workSteps, workResult,
                 sweepVars, endVars, warnings, workFs, restoreLog, examined, evicted,
                 sweepRaised, earlier, mgrVars>>

\* ------------------------------------------------ the backup loop, l.35-45
CurTarget == targets[idx]
CurBackupPath == BackupPath(operation_name, timestamp, CurTarget)

\* A loop that copies every target, present or not.
CopiesAnything(node) == TRUE
\* l.36: if target.exists()
Snapshottable(node) == Exists(node)
\* A loop whose try encloses the for: the first error ends it.
LoopEndsOnCopyError(i, n) == n + 1
\* l.44-45 are inside the for: after an error the loop takes the next target.
LoopAfterCopyError(i, n) == i + 1

\* l.36: a target that does not exist is passed over.
SnapshotSkip ==
  /\ pc = "snapshotting" /\ idx <= Len(targets)
  /\ ~Snapshottable(fs[CurTarget])
  /\ idx' = idx + 1
  /\ snapLog' = Append(snapLog, "skipped")
  /\ UNCHANGED <<fs, storeExists, store, createdAt, now, ticks, pc, trail, invVars, backups,
                 workSteps, workResult, sweepVars, endVars, warnings, histVars>>

\* l.37-43: the copy completes and the pair is appended.
SnapshotTake ==
  /\ pc = "snapshotting" /\ idx <= Len(targets)
  /\ Snapshottable(fs[CurTarget])
  /\ ~CopyMustFail(storeExists, store, CurBackupPath, fs[CurTarget])
  /\ store' = SnapshotCopy(store, CurBackupPath, CurTarget, fs[CurTarget])
  /\ createdAt' = [a \in DOMAIN createdAt \cup {CurBackupPath} |->
                     IF a = CurBackupPath THEN now ELSE createdAt[a]]
  /\ backups' = Append(backups, <<CurTarget, CurBackupPath>>)
  /\ idx' = idx + 1
  /\ snapLog' = Append(snapLog, "taken")
  /\ UNCHANGED <<fs, storeExists, now, ticks, pc, trail, invVars, workSteps, workResult,
                 sweepVars, endVars, warnings, histVars>>

\* l.44-45: the copy raises OSError (it had to: "refused"; or the disk
\* failed: "disk"): a warning, no pair, and the loop goes on.
SnapshotFail ==
  /\ pc = "snapshotting" /\ idx <= Len(targets)
  /\ Snapshottable(fs[CurTarget])
  /\ warnings' = warnings \cup {"backup"}
  /\ idx' = LoopAfterCopyError(idx, Len(targets))
  /\ snapLog' = Append(snapLog, IF CopyMustFail(storeExists, store, CurBackupPath, fs[CurTarget])
                                THEN "refused" ELSE "disk")
  /\ UNCHANGED <<fs, storeExists, store, createdAt, now, ticks, pc, trail, invVars, backups,
                 workSteps, workResult, sweepVars, endVars, histVars>>

\* l.48: yield, the body of the with statement starts.
BeginWork ==
  /\ pc = "snapshotting" /\ idx > Len(targets)
  /\ Step("executing")
  /\ UNCHANGED <<fs, storeExists, store, createdAt, now, ticks, invVars, idx, backups, snapLog,
                 workSteps, workResult, sweepVars, endVars, warnings, histVars>>

\* ------------------------------------- the work (the with body, at l.48)
\* The caller's code: it may write, delete or create the paths it declared
\* as targets, then returns or raises.
WorkFrame == <<storeExists, store, createdAt, now, ticks, pc, trail, invVars, idx, backups, snapLog,
               workResult, sweepVars, endVars, warnings, histVars>>
Declared == {targets[i] : i \in 1..Len(targets)}
Working(p) == pc = "executing" /\ workSteps < MaxWorkSteps /\ p \in Declared

WorkWrite(p) ==
  /\ Working(p) /\ ~IsDir(fs[p])
  /\ fs' = [fs EXCEPT ![p] = File(WorkContent, now)]
  /\ workSteps' = workSteps + 1
  /\ UNCHANGED WorkFrame

WorkRemove(p) ==
  /\ Working(p) /\ Exists(fs[p])
  /\ fs' = [fs EXCEPT ![p] = Absent]
  /\ workSteps' = workSteps + 1
  /\ UNCHANGED WorkFrame

WorkMkdir(p) ==
  /\ Working(p) /\ ~Exists(fs[p])
  /\ fs' = [fs EXCEPT ![p] = Dir(NoEntries, now)]
  /\ workSteps' = workSteps + 1
  /\ UNCHANGED WorkFrame

\* write (v = WorkContent) or delete (v = 0) the entry n of the directory p
WorkSetEntry(p, n, v) ==
  /\ Working(p) /\ IsDir(fs[p]) /\ fs[p].entries[n] # v
  /\ fs' = [fs EXCEPT ![p] = Dir([fs[p].entries EXCEPT ![n] = v],
                                 IF v = 0 \/ fs[p].entries[n] = 0 THEN now ELSE fs[p].mtime)]
  /\ workSteps' = workSteps + 1
  /\ UNCHANGED WorkFrame

\* The body ends normally: l.50-51 runs, _cleanup_old_backups(days=7), whose
\* first lines (l.74, l.77) fix the cutoff and list the backup directory.
WorkReturn ==
  /\ pc = "executing"
  /\ workResult' = "ok" /\ workFs' = fs
  /\ Step(AfterWork("ok"))
  /\ idx' = 1
  /\ cutoff' = Cutoff(now, RetentionDays)
  /\ toSweep' = IF storeExists THEN DOMAIN store ELSE {}
  /\ UNCHANGED <<fs, storeExists, store, createdAt, now, ticks, invVars, backups, snapLog, workSteps,
                 endVars, warnings, entryFs, restoreLog, examined, evicted, sweepRaised>>

\* The body raises err: caught at l.53 (rollback follows), or not caught, and
\* then the error leaves protected_operation at once.
WorkRaise(err) ==
  /\ pc = "executing"
  /\ workResult' = err /\ workFs' = fs
  /\ Step(AfterWork(err))
  /\ idx' = 1
  /\ IF AfterWork(err) = "done"
     THEN outcome' = "raised" /\ raised' = err /\ UNCHANGED caught
     ELSE caught' = err /\ UNCHANGED <<outcome, raised>>
  /\ cutoff' = IF AfterWork(err) = "committing" THEN Cutoff(now, RetentionDays) ELSE cutoff
  /\ toSweep' = IF AfterWork(err) = "committing" /\ storeExists THEN DOMAIN store ELSE toSweep
  /\ warnings' = IF AfterWork(err) = "rollingback" THEN warnings \cup {"error"} ELSE warnings
  /\ UNCHANGED <<fs, storeExists, store, createdAt, now, ticks, invVars, backups, snapLog, workSteps,
                 entryFs, restoreLog, examined, evicted, sweepRaised>>

\* ------------------------------------- _cleanup_old_backups, l.71-81
SweepFrame == <<fs, storeExists, createdAt, now, ticks, invVars, backups, snapLog, workSteps,
                workFs, entryFs, restoreLog>>

\* l.78 false: the artifact stays.
SweepKeep(a) ==
  /\ pc = "committing" /\ a \in toSweep
  /\ ~IsOld(store[a], cutoff)
  /\ toSweep' = toSweep \ {a}
  /\ examined' = examined \cup {a}
  /\ UNCHANGED <<store, pc, trail, idx, workResult, cutoff, endVars, warnings, evicted, sweepRaised>>
  /\ UNCHANGED SweepFrame

\* l.78 true and l.79 completes: the artifact is gone.
SweepDelete(a) ==
  /\ pc = "committing" /\ a \in toSweep
  /\ IsOld(store[a], cutoff) /\ ~UnlinkRaises(store[a])
  /\ store' = [b \in DOMAIN store \ {a} |-> store[b]]
  /\ toSweep' = toSweep \ {a}
  /\ examined' = examined \cup {a}
  /\ evicted' = evicted \cup {[name |-> a, made |-> createdAt[a], mtime |-> store[a].mtime,
                               swept |-> now]}
  /\ UNCHANGED <<pc, trail, idx, workResult, cutoff, endVars, warnings, sweepRaised>>
  /\ UNCHANGED SweepFrame

\* OSError is raised inside the loop, on artifact a.  The except clause of
\* l.80 is outside the loop: when it catches, the sweep is over; were the
\* error to pass it, the except of l.53 would take it as a failure of the
\* operation.
SweepRaise(a, disk) ==
  /\ examined' = examined \cup {a}
  /\ sweepRaised' = sweepRaised \cup {[name |-> a, disk |-> disk]}
  /\ toSweep' = {}
  /\ IF SweepErrorCaught
     THEN /\ warnings' = warnings \cup {"cleanup"}
          /\ Step("done") /\ outcome' = "returned"
          /\ UNCHANGED <<raised, caught>>
     ELSE /\ warnings' = warnings \cup {"error"}
          /\ Step(AfterWork("OSError"))
          /\ IF AfterWork("OSError") = "done"
             THEN outcome' = "raised" /\ raised' = "OSError" /\ UNCHANGED caught
             ELSE caught' = "OSError" /\ UNCHANGED <<outcome, raised>>
  /\ UNCHANGED <<store, idx, workResult, cutoff, evicted>>
  /\ UNCHANGED SweepFrame

\* l.79 on an old artifact that is a directory: unlink raises.
SweepUnlinkDir(a) ==
  /\ pc = "committing" /\ a \in toSweep
  /\ IsOld(store[a], cutoff) /\ UnlinkRaises(store[a])
  /\ SweepRaise(a, FALSE)

\* l.78 or l.79: the disk fails on stat or on unlink.
SweepDiskError(a) ==
  /\ pc = "committing" /\ a \in toSweep
  /\ SweepRaise(a, TRUE)

\* The loop of l.77 is exhausted: protected_operation returns.
SweepFinish ==
  /\ pc = "committing" /\ toSweep = {}
  /\ Step("done") /\ outcome' = "returned"
  /\ UNCHANGED <<store, idx, workResult, sweepVars, raised, caught, warnings, examined,
                 evicted, sweepRaised>>
  /\ UNCHANGED SweepFrame

\* ----------------------------------------------- the rollback, l.53-69
RollFrame == <<storeExists, store, createdAt, now, ticks, pc, trail, invVars, backups, snapLog, workSteps,
               workResult, sweepVars, endVars, entryFs, workFs, examined, evicted,
               sweepRaised>>
Restoring == pc = "rollingback" /\ idx <= Len(backups)
\* A restore that looks for the original by the name kept in the backup path.
PathOfBackupName(pair) == CHOOSE p \in Paths : PathName(p) = pair[2].leaf
\* l.58: for original, backup in backups: the path restored is the first of the pair.
RestoredPath(pair) == pair[1]
CurOriginal == RestoredPath(backups[idx])
CurBackup == backups[idx][2]

\* l.60-65: the restore of one pair completes.
RestoreOk ==
  /\ Restoring
  /\ RestoreCanSucceed(store, CurBackup, fs[CurOriginal])
  /\ fs' = [fs EXCEPT ![CurOriginal] = Restored(store, CurBackup, fs[CurOriginal])]
  /\ restoreLog' = Append(restoreLog, [pair |-> idx, ok |-> TRUE, disk |-> FALSE,
                                       was |-> fs[CurOriginal].kind,
                                       is |-> fs'[CurOriginal].kind])
  /\ idx' = idx + 1
  /\ UNCHANGED warnings
  /\ UNCHANGED RollFrame

\* l.66-67: the restore raises OSError because of what it finds: the backup
\* is gone or is not of the kind the branch copies.
RestoreMisfit ==
  /\ Restoring
  /\ ~RestoreCanSucceed(store, CurBackup, fs[CurOriginal])
  /\ fs' = [fs EXCEPT ![CurOriginal] = AfterFailedRestore(fs[CurOriginal], "source", now)]
  /\ restoreLog' = Append(restoreLog, [pair |-> idx, ok |-> FALSE, disk |-> FALSE,
                                       was |-> fs[CurOriginal].kind,
                                       is |-> fs'[CurOriginal].kind])
  /\ warnings' = warnings \cup {"fatal"}
  /\ idx' = idx + 1
  /\ UNCHANGED RollFrame

\* l.66-67: the restore raises OSError because the disk fails, at stage.
RestoreDiskError(stage) ==
  /\ Restoring
  /\ stage = "remove" => RestoreTakesDirBranch(fs[CurOriginal])
  /\ fs' = [fs EXCEPT ![CurOriginal] = AfterFailedRestore(fs[CurOriginal], stage, now)]
  /\ restoreLog' = Append(restoreLog, [pair |-> idx, ok |-> FALSE, disk |-> TRUE,
                                       was |-> fs[CurOriginal].kind,
                                       is |-> fs'[CurOriginal].kind])
  /\ warnings' = warnings \cup {"fatal"}
  /\ idx' = idx + 1
  /\ UNCHANGED RollFrame

\* l.69: every pair has been tried; the error is raised again.
RollbackRaise ==
  /\ pc = "rollingback" /\ idx > Len(backups)
  /\ Step("done") /\ outcome' = "raised" /\ raised' = Reraise(caught)
  /\ UNCHANGED <<caught, fs, storeExists, store, createdAt, now, ticks, invVars, idx, backups, snapLog,
                 workSteps, workResult, sweepVars, warnings, histVars>>

\* ------------------------------------------------------------------- Next
Next ==
  \/ Tick
  \/ \E op \in OpNames, tgts \in TargetLists : Enter(op, tgts)
  \/ SnapshotSkip
  \/ SnapshotTake
  \/ SnapshotFail
  \/ BeginWork
  \/ \E p \in Paths : WorkWrite(p)
  \/ \E p \in Paths : WorkRemove(p)
  \/ \E p \in Paths : WorkMkdir(p)
  \/ \E p \in Paths, n \in WorkEntryNames, v \in {0, WorkContent} : WorkSetEntry(p, n, v)
  \/ WorkReturn
  \/ \E err \in WorkErrors : WorkRaise(err)
  \/ \E a \in toSweep : SweepKeep(a)
  \/ \E a \in toSweep : SweepDelete(a)
  \/ \E a \in toSweep : SweepUnlinkDir(a)
  \/ \E a \in toSweep : SweepDiskError(a)
  \/ SweepFinish
  \/ RestoreOk
  \/ RestoreMisfit
  \/ \E stage \in {"source", "remove", "write"} : RestoreDiskError(stage)
  \/ RollbackRaise

Spec == Init /\ [][Next]_vars

\* ------------------------------------- RollbackManager.__init__, l.12-17
\* How self.backup_dir.mkdir(parents=True, exist_ok=True) ends: "ok" (the
\* directory is made, or was there), or an error: the process may not write
\* there (PermissionError), backup_dir is a regular file (FileExistsError),
\* a component of the path is a regular file (NotADirectoryError), the
\* filesystem is read-only (OSError, errno EROFS).
MkdirResults == {"ok", "PermissionError", "FileExistsError", "NotADirectoryError", "OSError"}
\* l.16: except PermissionError
InitCatches(err) == err = "PermissionError"

\* The state before the manager is constructed: nothing has been backed up.
LifeTree == [p \in Paths |-> CASE p = P1 -> File(ContentOf(p), OldTime)
                               [] p = P2 -> Dir(OneEntry(p), OldTime)
                               [] p = P3 -> Absent]
InitLife ==
  /\ store = StoreOf({}) /\ createdAt = MadeOf({})
  /\ storeExists \in BOOLEAN
  /\ fs = LifeTree
  /\ now = Now0 /\ ticks = 0
  /\ pc = "new"
  /\ operation_name = "" /\ timestamp = <<0, 0>> /\ targets = <<>>
  /\ idx = 0 /\ backups = <<>>
  /\ workSteps = 0 /\ workResult = "none"
  /\ cutoff = 0 /\ toSweep = {}
  /\ outcome = "none" /\ raised = "none" /\ caught = "none"
  /\ warnings = {}
  /\ entryFs = fs /\ workFs = fs
  /\ restoreLog = <<>> /\ examined = {} /\ evicted = {} /\ sweepRaised = {}
  /\ snapLog = <<>> /\ trail = <<"new">> /\ earlier = {}
  /\ NoManager

\* __init__ runs: mkdir ends with res.  An error the except clause does not
\* name leaves __init__ (pc = "failed"): there is no manager.
Construct(res) ==
  /\ pc = "new"
  /\ storeExists => res = "ok"
  /\ storeExists' = (res = "ok")
  /\ IF res = "ok" \/ InitCatches(res)
     THEN Step("idle") /\ UNCHANGED raised
     ELSE Step("failed") /\ raised' = res
  /\ warnings' = IF res # "ok" /\ InitCatches(res) THEN warnings \cup {"nodir"} ELSE warnings
  /\ UNCHANGED <<fs, store, createdAt, now, ticks, invVars, idx, backups, snapLog, workSteps,
                 workResult, sweepVars, outcome, caught, histVars>>

\* The call has ended and the caller will make another on the same manager:
\* of the call nothing is left but what it did to the disk, and its backup_id
\* is remembered.  The list of the call that ended is kept here so that a
\* call which did not start from an empty one would show.
Again ==
  /\ pc = "done" /\ earlier = {}
  /\ earlier' = earlier \cup {<<operation_name, timestamp>>}
  /\ pc' = "idle" /\ trail' = <<"idle">>
  /\ operation_name' = "" /\ timestamp' = <<0, 0>> /\ targets' = <<>>
  /\ idx' = 0
  /\ workSteps' = 0 /\ workResult' = "none"
  /\ cutoff' = 0 /\ toSweep' = {}
  /\ outcome' = "none" /\ raised' = "none" /\ caught' = "none"
  /\ warnings' = {}
  /\ entryFs' = fs /\ workFs' = fs
  /\ restoreLog' = <<>> /\ examined' = {} /\ evicted' = {} /\ sweepRaised' = {}
  /\ snapLog' = <<>>
  /\ UNCHANGED <<fs, storeExists, store, createdAt, now, ticks, backups, mgrVars>>

NextLife ==
  \/ \E res \in MkdirResults : Construct(res)
  \/ Again
  \/ Next

SpecLife == InitLife /\ [][NextLife]_vars

\* ------------------------------------- SystemValidator (core/validators.py)
\* The rollback manager at rest, with an empty backup directory.
RollbackAtRest ==
  /\ store = StoreOf({}) /\ createdAt = MadeOf({})
  /\ now = Now0 /\ ticks = 0
  /\ pc = "idle"
  /\ operation_name = "" /\ timestamp = <<0, 0>> /\ targets = <<>>
  /\ idx = 0 /\ backups = <<>>
  /\ workSteps = 0 /\ workResult = "none"
  /\ cutoff = 0 /\ toSweep = {}
  /\ outcome = "none" /\ raised = "none" /\ caught = "none"
  /\ warnings = {}
  /\ entryFs = fs /\ workFs = fs
  /\ restoreLog = <<>> /\ examined = {} /\ evicted = {} /\ sweepRaised = {}
  /\ snapLog = <<>> /\ trail = <<"idle">> /\ earlier = {}
rbVars == <<fs, storeExists, store, createdAt, now, ticks, pc, operation_name, timestamp,
            targets, idx, backups, workSteps, workResult, cutoff, toSweep, outcome, raised,
            warnings, entryFs, workFs, restoreLog, examined, evicted, caught, sweepRaised,
            snapLog, trail, earlier>>

\* A site name is a sequence of characters, drawn from: a letter and a digit
\* of the class, its two symbols, a capital, and the newline.
Chars == {"a", "7", ".", "-", "A", "\n"}
Names == UNION {[1..n -> Chars] : n \in 0..MaxNameLen}
InClass(c) == c \in {"a", "7", ".", "-"}                \* [a-z0-9.-]
\* re.match(r'^[a-z0-9.-]+$', site_name): one or more characters of the
\* class from the start, up to the end of the string or up to a newline that
\* ends the string ($ matches before it).
ReMatch(name) ==
  LET body == IF Len(name) > 0 /\ name[Len(name)] = "\n"
              THEN SubSeq(name, 1, Len(name) - 1) ELSE name
  IN Len(body) > 0 /\ \A i \in 1..Len(body) : InClass(body[i])
StartsWith(name, c) == Len(name) > 0 /\ name[1] = c
EndsWith(name, c) == Len(name) > 0 /\ name[Len(name)] = c
\* l.43: not re.match(...) or site_name.startswith('-') or site_name.endswith('.')
NameRejected(name) == ~ReMatch(name) \/ StartsWith(name, "-") \/ EndsWith(name, ".")
InList(x, l) == \E i \in 1..Len(l) : l[i] = x
ErrorIf(cond, e) == IF cond THEN <<e>> ELSE <<>>

\* validate_site_config, l.36-60: four checks, each appending its error.
ValidateSiteConfig(name, php, supported, vhostExists, docExists) ==
  LET errors == ErrorIf(NameRejected(name), "name") \o ErrorIf(~InList(php, supported), "php")
                \o ErrorIf(vhostExists, "vhost") \o ErrorIf(docExists, "docroot")
  IN [kind |-> "site", valid |-> Len(errors) = 0, errors |-> errors]

\* os.statvfs('/') raises OSError, or gives the free blocks and their size.
\* free_gb < 1, with free_gb = f_bavail * f_frsize / 1024**3.
LessThanOneGb(st) == st.f_bavail * st.f_frsize < 1024 * 1024 * 1024
SpaceErrors(st) ==
  IF st.raises THEN <<"statvfs">> ELSE ErrorIf(LessThanOneGb(st), "space")
\* A validator that returns at the first error it finds.
FirstErrorOnly(euid, st, conn) ==
  LET all == ErrorIf(euid # 0, "root") \o SpaceErrors(st) \o ErrorIf(conn = "OSError", "net")
  IN [kind |-> "prerequisites", valid |-> Len(all) = 0,
      errors |-> IF Len(all) = 0 THEN all ELSE <<all[1]>>]
\* validate_prerequisites, l.10-34: three checks, each appending its error.
ValidatePrerequisites(euid, st, conn) ==
  LET errors == ErrorIf(euid # 0, "root") \o SpaceErrors(st) \o ErrorIf(conn = "OSError", "net")
  IN [kind |-> "prerequisites", valid |-> Len(errors) = 0, errors |-> errors]

PhpVersions == {"8.2", "7.4", "None"}       \* "None": the key is missing
SupportedLists == {<<"8.1", "8.2">>, <<>>}
SiteRequests ==
  [kind : {"site"}, name : Names, php : PhpVersions, supported : SupportedLists,
   vhostExists : BOOLEAN, docExists : BOOLEAN]
Statvfs(raises, blocks) == [raises |-> raises, f_bavail |-> blocks, f_frsize |-> 4096]
StatvfsResults ==
  {Statvfs(TRUE, 0)} \cup {Statvfs(FALSE, b) : b \in {0, 262143, 262144, 300000}}
Euids == {0, 1000}
ConnectResults == {"ok", "OSError"}
PrerequisiteRequests ==
  [kind : {"prerequisites"}, euid : Euids, statvfs : StatvfsResults, connect : ConnectResults]

InitValidate ==
  /\ fs = [p \in Paths |-> Absent]
  /\ storeExists = TRUE /\ RollbackAtRest
  /\ mpc = "off" /\ method = "none" /\ dryRun = FALSE /\ args = NoRequest
  /\ mstep = 0 /\ events = <<>> /\ mresult = "none" /\ password = "None"
  /\ stack = <<>>
  /\ vreq \in SiteRequests \cup PrerequisiteRequests
  /\ vres = NoRequest

CheckSiteConfig ==
  /\ vreq.kind = "site" /\ vres = NoRequest
  /\ vres' = ValidateSiteConfig(vreq.name, vreq.php, vreq.supported,
                                vreq.vhostExists, vreq.docExists)
  /\ UNCHANGED <<rbVars, mpc, method, dryRun, args, mstep, events, mresult, password,
                 stack, vreq>>

CheckPrerequisites ==
  /\ vreq.kind = "prerequisites" /\ vres = NoRequest
  /\ vres' = ValidatePrerequisites(vreq.euid, vreq.statvfs, vreq.connect)
  /\ UNCHANGED <<rbVars, mpc, method, dryRun, args, mstep, events, mresult, password,
                 stack, vreq>>

NextValidate ==
  \/ CheckSiteConfig
  \/ CheckPrerequisites

SpecValidate == InitValidate /\ [][NextValidate]_vars

\* ------------------------------- LinuxStackManager (linux/stack_manager.py)
\* doc_root = sites_dir / site_name and vhost_file = vhosts_dir /
\* f"{site_name}.conf": two paths whose final segments differ.
DocRoot == P1
VhostFile == P3
\* A site name the validator accepts and one it rejects.
SiteNames == {<<"a">>, <<"-">>}
ComponentSets == {{"all"}, {"apache"}, {"mysql", "php"}, {"php"}}
Selected(comps, c) == "all" \in comps \/ c \in comps        \* l.56, 61, 66
\* An installer that begins with PHP.
PhpFirst == <<"php", "apache", "mysql">>
\* l.56-70: Apache, then MySQL, then PHP.
InstallOrder == <<"apache", "mysql", "php">>
\* A creation that stores the password as soon as it is generated.
PasswordFirst ==
  <<"password", "docroot", "vhost", "database", "user", "privileges", "reload", "drupal">>
\* _execute_site_creation, l.248-273, then _setup_drupal_core_and_ai, l.121-122.
CreateSteps ==
  <<"docroot", "vhost", "database", "user", "privileges", "reload", "password", "drupal">>
\* A switch that declares nothing to back up.
NoTargets == <<>>
\* l.331: protected_operation('switch_php', [vhost_file])
SwitchTargets == <<VhostFile>>
\* A method that takes no notice of dry_run.
DryRunIgnored(dry) == FALSE
\* l.37, l.105, l.310 (and windows/stack_manager.py l.33, 55, 113): if self.dry_run
DryRunStops(dry) == dry
\* RollbackManager (rollback.py l.9-81) defines __init__, protected_operation
\* and _cleanup_old_backups: it has no attribute revert.
HasRevert == FALSE
\* l.76-79, 133-136, 343-346: except Exception: print, self.rollback.revert(),
\* return False.  Without the attribute the call raises AttributeError, which
\* leaves the handler and the method.
HandlerResult == IF HasRevert THEN "False" ELSE "AttributeError"

\* The operation name and the targets of the with statement the method is at.
Nested == stack # <<>>
CallOp ==
  IF Nested THEN "create_vhost"                              \* apache_manager.py l.59
  ELSE CASE method = "install" -> "install_components"       \* l.55
         [] method = "create" -> "create_drupal_site"        \* l.116
         [] method = "switch" -> "switch_php"                \* l.331
CallTargets ==
  IF Nested THEN <<VhostFile>>
  ELSE CASE method = "install" -> <<>>
         [] method = "create" -> <<DocRoot, VhostFile>>
         [] method = "switch" -> SwitchTargets

\* The trees a method may be called on: the DocumentRoot is not there or is an
\* old directory, the vhost file is not there or is an old or a recent file.
StackTrees ==
  {t \in [Paths -> UNION {InitNodes(p) : p \in Paths}] :
     /\ t[DocRoot] \in {Absent, Dir(OneEntry(DocRoot), OldTime)}
     /\ t[P2] = Absent
     /\ t[VhostFile] \in {Absent, File(ContentOf(VhostFile), OldTime),
                          File(ContentOf(VhostFile), RecentTime)}}

\* A stack manager has been constructed (l.19-24) and no method called yet.
InitStack ==
  /\ fs \in StackTrees
  /\ storeExists \in BOOLEAN
  /\ RollbackAtRest
  /\ mpc = "ready" /\ method = "none" /\ dryRun \in BOOLEAN /\ args = NoRequest
  /\ mstep = 0 /\ events = <<>> /\ mresult = "none" /\ password = "None"
  /\ stack = <<>> /\ vreq = NoRequest /\ vres = NoRequest

\* An effect outside the filesystem: what was run, and whether it reported
\* success.
Did(what, ok) == [what |-> what, ok |-> ok]
\* The method returns r before its with statement.
ReturnEarly(r) == mpc' = "returned" /\ mresult' = r /\ mstep' = 0
\* The method goes on to its with statement.
GoOn == mpc' = "body" /\ mresult' = "none" /\ mstep' = 1

\* install_components, l.26-52.
CallInstall(comps, euid, st, conn, resp) ==
  /\ mpc = "ready"
  /\ method' = "install" /\ args' = [kind |-> "install", components |-> comps]
  /\ vreq' = [kind |-> "prerequisites", euid |-> euid, statvfs |-> st, connect |-> conn]
  /\ vres' = ValidatePrerequisites(euid, st, conn)
  /\ IF ~vres'.valid THEN ReturnEarly("False")
     ELSE IF DryRunStops(dryRun) THEN ReturnEarly("True")
     ELSE IF resp # "y" THEN ReturnEarly("False")
     ELSE GoOn
  /\ UNCHANGED <<rbVars, dryRun, events, password, stack>>

\* create_drupal_site, l.81-112.  The validator looks under
\* /etc/apache2/sites-available and /var/www (validators.py l.52, 56), the
\* method under the directories of the configuration (l.96, 115): same says
\* whether these are the same directories.
CallCreate(name, php, drupal, resp, same) ==
  /\ mpc = "ready"
  /\ method' = "create" /\ args' = [kind |-> "create", drupal |-> drupal]
  /\ vreq' = [kind |-> "site", name |-> name, php |-> php, supported |-> <<"8.1", "8.2">>,
              vhostExists |-> same /\ Exists(fs[VhostFile]),
              docExists |-> same /\ Exists(fs[DocRoot])]
  /\ vres' = ValidateSiteConfig(name, php, <<"8.1", "8.2">>, vreq'.vhostExists, vreq'.docExists)
  /\ IF ~vres'.valid THEN ReturnEarly("False")
     ELSE IF DryRunStops(dryRun) THEN ReturnEarly("True")
     ELSE IF resp # "y" THEN ReturnEarly("False")
     ELSE GoOn
  /\ UNCHANGED <<rbVars, dryRun, events, password, stack>>

\* switch_php_version, l.298-329.  directive: re.subn found the SetHandler
\* line in the file (count > 0).
CallSwitch(directive) ==
  /\ mpc = "ready"
  /\ method' = "switch" /\ args' = [kind |-> "switch"]
  /\ IF ~Exists(fs[VhostFile]) THEN ReturnEarly("False")
     ELSE IF DryRunStops(dryRun) THEN ReturnEarly("True")
     ELSE IF ~directive THEN ReturnEarly("False")
     ELSE GoOn
  /\ UNCHANGED <<rbVars, dryRun, events, password, stack, vreq, vres>>

\* WindowsStackManager.install_components, create_drupal_site and
\* switch_php_version (windows/stack_manager.py l.30-118): a dry run returns
\* True; otherwise the method calls the legacy orchestrator and returns what
\* it reports (ok).
WindowsMethods == {"win_install", "win_create", "win_switch"}
CallWindows(m, ok) ==
  /\ mpc = "ready"
  /\ method' = m /\ args' = [kind |-> m]
  /\ IF DryRunStops(dryRun)
     THEN ReturnEarly("True") /\ UNCHANGED events
     ELSE /\ ReturnEarly(IF ok THEN "True" ELSE "False")
          /\ events' = Append(events, Did("legacy orchestrator", ok))
  /\ UNCHANGED <<rbVars, dryRun, password, stack, vreq, vres>>

\* ------------------------------------------- the bodies of the with statements
BodyFrame == <<storeExists, store, createdAt, now, ticks, pc, trail, operation_name, timestamp,
               targets, earlier, idx, backups, snapLog, workSteps, workResult, sweepVars,
               endVars, warnings, histVars, method, dryRun, args, mresult, stack, vreq, vres>>
InBody(m) == mpc = "body" /\ pc = "executing" /\ ~Nested /\ method = m
\* The step has succeeded: the next one, or the end of the body after the last.
Advance(last) ==
  IF mstep = last THEN mpc' = "succeeded" /\ mstep' = mstep
  ELSE mpc' = mpc /\ mstep' = mstep + 1
\* The step has reported failure: raise RuntimeError.
Fail == mpc' = "failed" /\ mstep' = mstep

\* install_components, l.56-70: a component that is selected is installed,
\* and a False from its install raises RuntimeError.
InstallStep(ok) ==
  /\ InBody("install")
  /\ LET c == InstallOrder[mstep] IN
       IF Selected(args.components, c)
       THEN /\ events' = Append(events, Did(c, ok))
            /\ IF ok THEN Advance(Len(InstallOrder)) ELSE Fail
       ELSE /\ ok /\ UNCHANGED events /\ Advance(Len(InstallOrder))
  /\ UNCHANGED <<fs, password>>
  /\ UNCHANGED BodyFrame

\* switch_php_version, l.332: vhost_file.write_text(new_content)
SwitchWrite ==
  /\ InBody("switch") /\ mstep = 1
  /\ fs' = [fs EXCEPT ![VhostFile] = File(WorkContent, now)]
  /\ mpc' = mpc /\ mstep' = mstep + 1
  /\ UNCHANGED <<events, password>>
  /\ UNCHANGED BodyFrame

\* switch_php_version, l.336-337: reload Apache, RuntimeError if it fails.
SwitchReload(ok) ==
  /\ InBody("switch") /\ mstep = 1 + 1
  /\ events' = Append(events, Did("reload", ok))
  /\ IF ok THEN mpc' = "succeeded" /\ mstep' = mstep ELSE Fail
  /\ UNCHANGED <<fs, password>>
  /\ UNCHANGED BodyFrame

\* os.makedirs(doc_root / subdir, exist_ok=True), l.250: the DocumentRoot and
\* the directory under it are there afterwards.
MakeDirs(node) ==
  IF ~Exists(node) THEN Dir([NoEntries EXCEPT !["e"] = WorkContent], now)
  ELSE IF node.entries["e"] = 0
       THEN Dir([node.entries EXCEPT !["e"] = WorkContent], now)
       ELSE node

CreateStep == CreateSteps[mstep]
\* _execute_site_creation, l.248-250.
CreateDocRoot ==
  /\ InBody("create") /\ CreateStep = "docroot"
  /\ fs' = [fs EXCEPT ![DocRoot] = MakeDirs(fs[DocRoot])]
  /\ events' = Append(events, Did("docroot", TRUE))
  /\ Advance(Len(CreateSteps))
  /\ UNCHANGED password
  /\ UNCHANGED BodyFrame

\* _execute_site_creation, l.258-271: create_database, create_user,
\* grant_privileges, reload_service; a False raises RuntimeError.
CreateService(ok) ==
  /\ InBody("create") /\ CreateStep \in {"database", "user", "privileges", "reload"}
  /\ events' = Append(events, Did(CreateStep, ok))
  /\ IF ok THEN Advance(Len(CreateSteps)) ELSE Fail
  /\ UNCHANGED <<fs, password>>
  /\ UNCHANGED BodyFrame

\* l.273: self.last_generated_password = db_password
CreatePassword ==
  /\ InBody("create") /\ CreateStep = "password"
  /\ password' = "generated"
  /\ Advance(Len(CreateSteps))
  /\ UNCHANGED <<fs, events>>
  /\ UNCHANGED BodyFrame

\* l.121-122: _setup_drupal_core_and_ai, when a Drupal version or the AI mode
\* was asked for.  Its commands are run with subprocess.run (l.149, 163, 175,
\* 187, 240), a name the module does not import: the first of them raises
\* NameError (ok = FALSE); only a site with nothing left to set up passes.
CreateDrupal(ok) ==
  /\ InBody("create") /\ CreateStep = "drupal"
  /\ IF args.drupal
     THEN /\ events' = Append(events, Did("drupal", ok))
          /\ IF ok THEN Advance(Len(CreateSteps)) ELSE Fail
     ELSE /\ ok /\ UNCHANGED events /\ Advance(Len(CreateSteps))
  /\ UNCHANGED <<fs, password>>
  /\ UNCHANGED BodyFrame

\* --------------------- ApacheManager.create_virtualhost (apache_manager.py)
\* What a protected_operation call keeps to itself, and where its caller is.
Frame ==
  [pc |-> pc, trail |-> trail, operation_name |-> operation_name, timestamp |-> timestamp,
   targets |-> targets, idx |-> idx, backups |-> backups, workSteps |-> workSteps,
   workResult |-> workResult, caught |-> caught, cutoff |-> cutoff, toSweep |-> toSweep,
   outcome |-> outcome, raised |-> raised, entryFs |-> entryFs, workFs |-> workFs,
   restoreLog |-> restoreLog, examined |-> examined, evicted |-> evicted,
   sweepRaised |-> sweepRaised, snapLog |-> snapLog, mstep |-> mstep]
SharedFrame == <<storeExists, store, createdAt, now, ticks, warnings, earlier, method, dryRun,
                 args, mresult, password, vreq, vres>>

\* _execute_site_creation, l.254: self.apache.create_virtualhost(...), which
\* comes to its own with statement (apache_manager.py l.59) while the one of
\* create_drupal_site is suspended at its yield.
CallCreateVirtualhost ==
  /\ InBody("create") /\ CreateStep = "vhost"
  /\ stack' = <<Frame>>
  /\ pc' = "idle" /\ trail' = <<"idle">>
  /\ operation_name' = "" /\ timestamp' = <<0, 0>> /\ targets' = <<>>
  /\ idx' = 0 /\ backups' = <<>> /\ workSteps' = 0 /\ workResult' = "none"
  /\ cutoff' = 0 /\ toSweep' = {}
  /\ outcome' = "none" /\ raised' = "none" /\ caught' = "none"
  /\ entryFs' = fs /\ workFs' = fs
  /\ restoreLog' = <<>> /\ examined' = {} /\ evicted' = {} /\ sweepRaised' = {}
  /\ snapLog' = <<>>
  /\ mpc' = "body" /\ mstep' = 1
  /\ UNCHANGED <<fs, events>>
  /\ UNCHANGED SharedFrame

InVirtualhost == mpc = "body" /\ pc = "executing" /\ Nested
VhostFrame == <<storeExists, store, createdAt, now, ticks, pc, trail, operation_name, timestamp,
                targets, earlier, idx, backups, snapLog, workSteps, workResult, sweepVars,
                endVars, warnings, histVars, method, dryRun, args, mresult, password, stack,
                vreq, vres>>

\* apache_manager.py l.60: vhost_file.write_text(vhost_template)
VhostWrite ==
  /\ InVirtualhost /\ mstep = 1
  /\ fs' = [fs EXCEPT ![VhostFile] = File(WorkContent, now)]
  /\ mpc' = mpc /\ mstep' = mstep + 1
  /\ UNCHANGED events
  /\ UNCHANGED VhostFrame

\* apache_manager.py l.62-64: a2ensite with check=True raises
\* CalledProcessError when it fails; a2dissite (check=False) cannot.
VhostEnable(ok) ==
  /\ InVirtualhost /\ mstep = 1 + 1
  /\ events' = Append(events, Did("a2ensite", ok))
  /\ IF ok THEN mpc' = "succeeded" /\ mstep' = mstep ELSE Fail
  /\ UNCHANGED fs
  /\ UNCHANGED VhostFrame

\* create_virtualhost returns True (l.64) or, having caught the error that
\* protected_operation raised again, False (l.65-67); _execute_site_creation
\* goes on or raises RuntimeError (stack_manager.py l.254-255).
ReturnFromVirtualhost ==
  /\ Nested /\ pc = "done" /\ mpc \in {"failed", "succeeded"}
  /\ LET f == stack[1]
         ok == outcome = "returned"
     IN /\ pc' = f.pc /\ trail' = f.trail /\ operation_name' = f.operation_name
        /\ timestamp' = f.timestamp /\ targets' = f.targets /\ idx' = f.idx
        /\ backups' = f.backups /\ workSteps' = f.workSteps /\ workResult' = f.workResult
        /\ caught' = f.caught /\ cutoff' = f.cutoff /\ toSweep' = f.toSweep
        /\ outcome' = f.outcome /\ raised' = f.raised /\ entryFs' = f.entryFs
        /\ workFs' = f.workFs /\ restoreLog' = f.restoreLog /\ examined' = f.examined
        /\ evicted' = f.evicted /\ sweepRaised' = f.sweepRaised /\ snapLog' = f.snapLog
        /\ events' = Append(events, Did("vhost", ok))
        /\ IF ok THEN mpc' = "body" /\ mstep' = f.mstep + 1
           ELSE mpc' = "failed" /\ mstep' = f.mstep
  /\ stack' = <<>>
  /\ UNCHANGED fs
  /\ UNCHANGED SharedFrame

\* ------------------------------------ the with statement and what follows
\* l.55, l.116, l.331 and apache_manager.py l.59: protected_operation is entered.
EnterWith == mpc = "body" /\ Enter(CallOp, CallTargets)
\* The body has run to its end: protected_operation goes on after its yield.
BodyReturns == mpc = "succeeded" /\ WorkReturn
\* The body has raised RuntimeError, CalledProcessError or NameError, all of
\* them Exceptions.
BodyRaises == mpc = "failed" /\ WorkRaise("Exception")

AuditEntry(m) ==
  CASE m = "install" -> "audit install_components"          \* l.72
    [] m = "create" -> "audit create_drupal_site"            \* l.124
    [] m = "switch" -> "audit switch_php"                    \* l.339
\* protected_operation has ended.  It returned: the audit entry is written
\* and the method returns True (l.72-74, 124-131, 339-341).  It raised: the
\* handler of the method runs (l.76-79, 133-136, 343-346).
MethodEnds ==
  /\ ~Nested /\ pc = "done" /\ mpc \in {"failed", "succeeded"}
  /\ IF outcome = "returned"
     THEN /\ events' = Append(events, Did(AuditEntry(method), TRUE))
          /\ mresult' = "True"
     ELSE /\ mresult' = HandlerResult
          /\ UNCHANGED events
  /\ mpc' = "returned"
  /\ UNCHANGED <<rbVars, method, dryRun, args, mstep, password, stack, vreq, vres>>

NextStack ==
  \/ Tick
  \/ \E comps \in ComponentSets, euid \in Euids, st \in StatvfsResults, conn \in ConnectResults,
        resp \in {"y", "n"} : CallInstall(comps, euid, st, conn, resp)
  \/ \E name \in SiteNames, php \in PhpVersions, drupal \in BOOLEAN, resp \in {"y", "n"},
        same \in BOOLEAN : CallCreate(name, php, drupal, resp, same)
  \/ \E directive \in BOOLEAN : CallSwitch(directive)
  \/ \E m \in WindowsMethods, ok \in BOOLEAN : CallWindows(m, ok)
  \/ EnterWith
  \/ SnapshotSkip
  \/ SnapshotTake
  \/ SnapshotFail
  \/ BeginWork
  \/ \E ok \in BOOLEAN : InstallStep(ok)
  \/ SwitchWrite
  \/ \E ok \in BOOLEAN : SwitchReload(ok)
  \/ CreateDocRoot
  \/ CallCreateVirtualhost
  \/ VhostWrite
  \/ \E ok \in BOOLEAN : VhostEnable(ok)
  \/ ReturnFromVirtualhost
  \/ \E ok \in BOOLEAN : CreateService(ok)
  \/ CreatePassword
  \/ \E ok \in BOOLEAN : CreateDrupal(ok)
  \/ BodyReturns
  \/ BodyRaises
  \/ \E a \in toSweep : SweepKeep(a)
  \/ \E a \in toSweep : SweepDelete(a)
  \/ \E a \in toSweep : SweepUnlinkDir(a)
  \/ \E a \in toSweep : SweepDiskError(a)
  \/ SweepFinish
  \/ RestoreOk
  \/ RestoreMisfit
  \/ \E stage \in {"source", "remove", "write"} : RestoreDiskError(stage)
  \/ RollbackRaise
  \/ MethodEnds

SpecStack == InitStack /\ [][NextStack]_vars

\* ================================================================ claims
Done == pc = "done"
Pairs == 1..Len(backups)
PairsOf(t) == {k \in Pairs : backups[k][1] = t}
RolledBack == Done /\ workResult = "Exception"
Committed == Done /\ workResult = "ok"
SameData(p) == Data(fs[p]) = Data(entryFs[p])

\* C1: a file target that was snapshotted, that the work overwrote or deleted
\* before raising an exception, holds its entry content when the call ends,
\* provided none of its restores raised an I/O error.
C1_FileRollback ==
  RolledBack =>
    \A k \in Pairs :
      LET t == backups[k][1] IN
        ( /\ entryFs[t].kind = "file"
          /\ workFs[t].kind \in {"file", "absent"}
          /\ Data(workFs[t]) # Data(entryFs[t])
          /\ \A m \in PairsOf(t) : restoreLog[m].ok )
        => SameData(t)

\* C2: once the work has raised, the call never returns normally and never
\* raises another error: it ends by raising the work's own error, whatever the
\* restores did.
C2_ReraisesWorkError ==
  workResult \in WorkErrors =>
    /\ outcome # "returned"
    /\ Done => (outcome = "raised" /\ raised = workResult)
    /\ ~Done => (pc = "rollingback" /\ outcome = "none")

C2_Witness ==
  /\ RolledBack
  /\ \E i, j \in Pairs : restoreLog[i].ok /\ ~restoreLog[j].ok

\* C3: a directory target that was snapshotted holds its entry tree when the
\* call ends after a failed work, whatever the work did to it, provided the
\* disk did not fail during its restores.
C3_DirRollback ==
  RolledBack =>
    \A k \in Pairs :
      LET t == backups[k][1] IN
        ( /\ entryFs[t].kind = "dir"
          /\ \A m \in PairsOf(t) : ~restoreLog[m].disk )
        => SameData(t)

\* C4: whatever kind of error the work raised, a restore has been attempted
\* for every recorded snapshot when control leaves the call.
C4_RollbackOnAnyFailure ==
  (Done /\ workResult \in WorkErrors) => Len(restoreLog) = Len(backups)

\* C5: after a failed work every snapshot is restored in the order of
\* creation, a failed restore notwithstanding, and a target whose restore
\* succeeds after an earlier one failed ends with its entry content.
C5_RestoreLoopContinues ==
  RolledBack =>
    /\ Len(restoreLog) = Len(backups)
    /\ \A j \in Pairs : restoreLog[j].pair = j
    /\ \A i, j \in Pairs :
         ( /\ i < j /\ ~restoreLog[i].ok /\ restoreLog[j].ok
           /\ \A m \in PairsOf(backups[j][1]) : m <= j )
         => SameData(backups[j][1])

\* C6: when the work returns, nothing is restored, every path keeps what the
\* work left there, and the call returns normally.
C6_CommitOnSuccess ==
  workResult = "ok" =>
    /\ restoreLog = <<>>
    /\ fs = workFs
    /\ pc \in {"committing", "done"}
    /\ Done => outcome = "returned"
    /\ raised = "none"

C6_Witness ==
  /\ Committed /\ outcome = "returned"
  /\ Len(backups) > 0
  /\ \E k \in Pairs : ~SameData(backups[k][1])

\* C7: the sweep deletes no artifact whose copy was made less than 7 days
\* before the sweep.
C7_RetainedSevenDays ==
  \A e \in evicted : e.swept - e.made >= RetentionDays * SecondsPerDay

\* C8: when stat or unlink fails on one artifact a warning is printed and the
\* sweep still examines every artifact of the backup directory, so that no
\* other artifact older than the cutoff is left.
C8_SweepContinues ==
  (Committed /\ sweepRaised # {}) =>
    /\ "cleanup" \in warnings
    /\ \A a \in DOMAIN store :
         /\ a \in examined
         /\ IsOld(store[a], cutoff) => \E r \in sweepRaised : r.name = a

\* C9: a sweep the disk does not disturb deletes every artifact, file copy or
\* directory copy, last modified before the cutoff, and only those.
C9_EvictionThreshold ==
  (Committed /\ \A r \in sweepRaised : ~r.disk) =>
    /\ \A a \in DOMAIN store : ~IsOld(store[a], cutoff)
    /\ \A e \in evicted : e.mtime < cutoff

\* C10: an error met by the commit-time sweep leaves the operation a success:
\* the call returns normally and nothing is restored.
C10_EvictionNeverFails ==
  (workResult = "ok" /\ sweepRaised # {}) =>
    /\ Done /\ outcome = "returned" /\ raised = "none"
    /\ caught = "none"
    /\ restoreLog = <<>>

C10_Witness ==
  /\ Committed /\ outcome = "returned"
  /\ Len(backups) > 0
  /\ sweepRaised # {}
  /\ \E k \in Pairs : ~SameData(backups[k][1])

\* C11: constructing the manager never fails because the backup directory
\* cannot be made: however mkdir fails, __init__ completes, and a manager
\* whose directory is missing has reported it.
C11_ConstructionNeverFails ==
  /\ pc # "failed"
  /\ (pc = "idle" /\ earlier = {} /\ ~storeExists) => "nodir" \in warnings

\* C12: without a backup directory the call still runs the work, once: no
\* pair is recorded, nothing is copied or restored, and the call ends as the
\* work ended, with the disk as the work left it.
Visits(p) == Cardinality({i \in 1..Len(trail) : trail[i] = p})
C12_DegradedModeRunsWork ==
  (~storeExists /\ pc \notin {"new", "failed", "idle"}) =>
    /\ backups = <<>> /\ restoreLog = <<>> /\ DOMAIN store = {}
    /\ Done =>
         /\ Visits("executing") = 1 /\ workResult # "none"
         /\ workResult = "ok" => outcome = "returned"
         /\ workResult \in WorkErrors => outcome = "raised" /\ raised = workResult
         /\ fs = workFs
C12_Witness ==
  /\ Done /\ ~storeExists /\ workResult = "Exception"
  /\ Len(targets) = MaxTargets
  /\ \A i \in 1..Len(targets) : Exists(entryFs[targets[i]])
  /\ fs # entryFs

\* C13: the backup loop is best effort, target by target: a copy that raises
\* records no pair (the pairs are the copies that completed, in order), the
\* loop goes on to every later target, the work is started, and a rollback
\* leaves alone a path for which no pair was recorded.
InCall == pc \in {"snapshotting", "executing", "committing", "rollingback", "done"}
PastSnapshots == pc \in {"executing", "committing", "rollingback", "done"}
CopyFailed(i) == snapLog[i] \in {"refused", "disk"}
TakenUpTo(i) == {j \in 1..i : snapLog[j] = "taken"}
TakenIdx(k) == CHOOSE i \in 1..Len(snapLog) :
                 snapLog[i] = "taken" /\ Cardinality(TakenUpTo(i)) = k
AbsentAtEntry(i) == ~Exists(entryFs[targets[i]])
MadeInCall == {a \in DOMAIN createdAt : createdAt[a] >= Now0}
C14_AbsentTargetSkipped ==
  (InCall /\ \E i \in 1..Len(snapLog) : AbsentAtEntry(i)) =>
    /\ \A i \in 1..Len(snapLog) : AbsentAtEntry(i) <=> snapLog[i] = "skipped"
    /\ \A k \in Pairs : Exists(entryFs[backups[k][1]])
    /\ Cardinality(MadeInCall) <= Cardinality(TakenUpTo(Len(snapLog)))
    /\ "backup" \in warnings <=> \E i \in 1..Len(snapLog) : CopyFailed(i)
    /\ pc = "snapshotting" => Len(snapLog) = idx - 1
    /\ PastSnapshots => Len(snapLog) = Len(targets) /\ Visits("executing") = 1
C14_Witness ==
  /\ Committed /\ Len(targets) = 2
  /\ AbsentAtEntry(1) /\ snapLog = <<"skipped", "taken">>
  /\ warnings = {}

\* C15: within one call two different target paths never share a backup
\* path.
C15_BackupPathsUnique ==
  \A i, j \in Pairs : backups[i][1] # backups[j][1] => backups[i][2] # backups[j][2]

\* C16: the backup_id of a call is the backup_id of no call that ended
\* before it on the same backup directory.
C16_OperationIdUnique ==
  InCall => <<operation_name, timestamp>> \notin earlier

\* C17: a path listed k times gets k pairs.  Stated for the calls in which
\* nothing else can make a copy fail: the backup directory exists, no disk
\* error occurred, and no two different targets have the same final segment.
Occurrences(t) == {i \in 1..Len(targets) : targets[i] = t}
OneNamePerPath ==
  \A i, j \in 1..Len(targets) :
    PathName(targets[i]) = PathName(targets[j]) => targets[i] = targets[j]
C17_DuplicatesSnapshotted ==
  (PastSnapshots /\ storeExists /\ OneNamePerPath
     /\ \A i \in 1..Len(snapLog) : snapLog[i] # "disk") =>
    \A t \in Declared :
      Exists(entryFs[t]) => Cardinality(PairsOf(t)) = Cardinality(Occurrences(t))

\* C18: a call that has ended went idle, snapshotting, executing, then
\* committing (the work returned) or rollingback (the work raised), then
\* done; and a call under way has gone along the start of one of these.
CommitTrail == <<"idle", "snapshotting", "executing", "committing", "done">>
RollbackTrail == <<"idle", "snapshotting", "executing", "rollingback", "done">>
IsPrefix(s, t) == Len(s) <= Len(t) /\ s = SubSeq(t, 1, Len(s))
C18_PhaseOrder ==
  /\ IsPrefix(trail, CommitTrail) \/ IsPrefix(trail, RollbackTrail)
  /\ pc = "executing" => Len(snapLog) = Len(targets)
  /\ Done => (IsPrefix(trail, CommitTrail) <=> workResult = "ok")

\* C19: the restore of a regular file never leaves the original missing,
\* whether it completes or raises: the copy goes over the file, which is not
\* deleted first.  A restore leaves an original missing that was there only
\* in the directory branch, only when it raises, and then the FATAL message
\* has been printed.
C19_FileRestoreKeepsOriginal ==
  \A k \in 1..Len(restoreLog) :
    /\ restoreLog[k].was = "file" => restoreLog[k].is # "absent"
    /\ (restoreLog[k].was # "absent" /\ restoreLog[k].is = "absent") =>
         /\ restoreLog[k].was = "dir" /\ ~restoreLog[k].ok
         /\ "fatal" \in warnings
C19_Witness ==
  /\ RolledBack
  /\ \E k \in 1..Len(restoreLog) :
       restoreLog[k].was = "file" /\ ~restoreLog[k].ok /\ restoreLog[k].is = "file"
  /\ \E k \in 1..Len(restoreLog) :
       restoreLog[k].was = "dir" /\ restoreLog[k].is = "absent"

\* C20: the list backups of a call starts empty, whatever an earlier call
\* gathered, holds at every moment exactly the pairs of the copies that have
\* completed in this call, in order, each with the backup path of this call;
\* a step of the backup loop leaves it as it is or appends one pair, and no
\* step of the work, the sweep or the rollback changes it.
C20_ListHoldsCompletedCopies ==
  InCall =>
    /\ Len(backups) = Cardinality(TakenUpTo(Len(snapLog)))
    /\ \A k \in Pairs :
         backups[k] = <<targets[TakenIdx(k)],
                        BackupPath(operation_name, timestamp, targets[TakenIdx(k)])>>
C20_ListStep ==
  /\ pc = "snapshotting" =>
       \/ backups' = backups
       \/ Len(backups') = Len(backups) + 1 /\ SubSeq(backups', 1, Len(backups)) = backups
  /\ pc \in {"executing", "committing", "rollingback"} => backups' = backups
C20_SnapshotsList == [](C20_ListHoldsCompletedCopies) /\ [][C20_ListStep]_vars
C20_Witness ==
  /\ earlier # {} /\ RolledBack
  /\ \E a \in DOMAIN store : a.ts # timestamp
  /\ Len(targets) = 2 /\ Len(backups) = 1 /\ Len(restoreLog) = 1

\* C21: validate_site_config returns is_valid = True exactly when it returns
\* no error, which is exactly when the name is a valid site name, the PHP
\* version is one of the supported ones and neither the vhost file nor the
\* DocumentRoot exists; every rule that is violated has its error in the
\* list, whatever the other rules found.
IsValidName(name) ==
  /\ Len(name) > 0
  /\ \A i \in 1..Len(name) : InClass(name[i])
  /\ name[1] \notin {".", "-"} /\ name[Len(name)] \notin {".", "-"}
HasError(e) == InList(e, vres.errors)
C21_SiteConfigValid ==
  vres.kind = "site" =>
    /\ vres.valid <=> vres.errors = <<>>
    /\ HasError("name") <=> ~IsValidName(vreq.name)
    /\ HasError("php") <=> ~InList(vreq.php, vreq.supported)
    /\ HasError("vhost") <=> vreq.vhostExists
    /\ HasError("docroot") <=> vreq.docExists

\* C22: a site name is accepted only if it is not empty, holds nothing but
\* a-z, 0-9, '.' and '-', and neither begins nor ends with '.' or '-'; every
\* other name has the name error as the first entry of the list.
C22_NameRule ==
  (vres.kind = "site" /\ ~IsValidName(vreq.name)) =>
    /\ ~vres.valid
    /\ Len(vres.errors) > 0 /\ vres.errors[1] = "name"

\* C23: validate_prerequisites returns (True, []) exactly when the process
\* is root, at least 1 GB is free on '/' and the probe connects; every check
\* that fails has its error in the list whatever the others found, so a run
\* that is not root always has the root error.
C23_Prerequisites ==
  vres.kind = "prerequisites" =>
    /\ vres.valid <=> vres.errors = <<>>
    /\ vres.valid <=>
         (vreq.euid = 0 /\ ~vreq.statvfs.raises /\ ~LessThanOneGb(vreq.statvfs)
            /\ vreq.connect = "ok")
    /\ HasError("root") <=> vreq.euid # 0
    /\ (HasError("space") \/ HasError("statvfs")) <=>
         (vreq.statvfs.raises \/ LessThanOneGb(vreq.statvfs))
    /\ HasError("net") <=> vreq.connect = "OSError"
C23_Witness ==
  /\ vres.kind = "prerequisites" /\ vreq.euid # 0
  /\ Len(vres.errors) = 3 /\ vres.errors[1] = "root"

Returned == mpc = "returned"
WorkFailed == Returned /\ outcome = "raised"
Happened(what, ok) == \E i \in 1..Len(events) : events[i] = Did(what, ok)
Ran(what) == Happened(what, TRUE) \/ Happened(what, FALSE)
Audited == \E m \in {"install", "create", "switch"} : Ran(AuditEntry(m))

\* C24: when the work inside the protected operation has failed,
\* install_components, create_drupal_site and switch_php_version end by
\* returning False, never by raising an error out of their handler.
C24_FailureReturnsFalse == WorkFailed => mresult = "False"

\* C25: when the work of create_drupal_site fails after the nested
\* create_vhost operation has committed, the outer rollback finds the backups
\* create_drupal_site recorded, and the DocumentRoot and the vhost file are
\* as they were when create_drupal_site entered its protected operation.
NestedCommitted == Happened("vhost", TRUE)
C25_NestedRollbackRestores ==
  (WorkFailed /\ method = "create" /\ NestedCommitted) =>
    /\ \A k \in Pairs : backups[k][2] \in DOMAIN store
    /\ SameData(DocRoot) /\ SameData(VhostFile)

\* C27: with dry_run set, install_components, create_drupal_site and
\* switch_php_version, of the Linux and of the Windows manager, run no
\* installer, service action or database statement, never enter
\* protected_operation, create no snapshot, change no path and leave the
\* stored password alone; if they get past their checks they return True.
NothingDone ==
  /\ events = <<>>
  /\ pc = "idle" /\ trail = <<"idle">> /\ stack = <<>>
  /\ DOMAIN store = {} /\ backups = <<>>
  /\ fs = entryFs
  /\ password = "None"
C27_DryRunDoesNothing ==
  dryRun => /\ NothingDone
            /\ mpc \in {"ready", "returned"}
            /\ Returned /\ method \in WindowsMethods => mresult = "True"
            /\ Returned /\ method = "switch" /\ Exists(fs[VhostFile]) => mresult = "True"
            /\ Returned /\ method \in {"install", "create"} /\ vres.valid => mresult = "True"
C27_Witness == dryRun /\ Returned /\ method = "create" /\ mresult = "True"

\* The reload of switch_php_version has failed after the file was rewritten.
SwitchFailed == Returned /\ method = "switch" /\ Happened("reload", FALSE)
SwitchUndone ==
  /\ Data(fs[VhostFile]) = Data(entryFs[VhostFile])
  /\ ~Ran(AuditEntry("switch"))
Rank(what) == CASE what = "apache" -> 1 [] what = "mysql" -> 2 [] what = "php" -> 3
                [] OTHER -> 0
Attempts == {i \in 1..Len(events) : Rank(events[i].what) > 0}
\* C29: install_components, past its checks, attempts the selected components
\* in the order Apache, MySQL, PHP and no others; once an install has
\* reported failure nothing is attempted after it, the install_components
\* audit entry is not written and True is not returned; True is returned only
\* with every selected component installed and the audit entry written.
C29_InstallInOrder ==
  method = "install" =>
    /\ \A i, j \in Attempts : i < j => Rank(events[i].what) < Rank(events[j].what)
    /\ \A i \in Attempts : Selected(args.components, events[i].what)
    /\ \A i \in Attempts : ~events[i].ok =>
         /\ i = Len(events)
         /\ mresult # "True"
    /\ (Returned /\ mresult = "True" /\ ~dryRun) =>
         /\ \A c \in {"apache", "mysql", "php"} :
              Selected(args.components, c) => Happened(c, TRUE)
         /\ events[Len(events)] = Did(AuditEntry("install"), TRUE)
C29_Witness ==
  /\ method = "install" /\ Returned
  /\ Happened("apache", TRUE) /\ Happened("mysql", FALSE)
  /\ Selected(args.components, "php")

\* The place of a step of _execute_site_creation in the order DocumentRoot,
\* VirtualHost, database, database user, privileges, Apache reload (0: not one).
StepRank(what) ==
  CASE what = "docroot" -> 1 [] what = "vhost" -> 2 [] what = "database" -> 3
    [] what = "user" -> 4 [] what = "privileges" -> 5 [] what = "reload" -> 6
    [] OTHER -> 0
StepsRun == {i \in 1..Len(events) : StepRank(events[i].what) > 0}
StepFailed == \E i \in StepsRun : ~events[i].ok
\* C30: _execute_site_creation runs its steps in the order DocumentRoot,
\* VirtualHost, database, user, privileges, reload, each after the success of
\* the one before; a step that reports failure is the last thing the creation
\* does; last_generated_password is assigned only when all six have
\* succeeded, and after a failed step it is what it was before the call.
C30_SiteCreationInOrder ==
  method = "create" =>
    /\ \A i, j \in StepsRun : i < j => StepRank(events[i].what) < StepRank(events[j].what)
    /\ \A i \in StepsRun : StepRank(events[i].what) > 1 =>
         \E j \in StepsRun : /\ j < i /\ events[j].ok
                             /\ StepRank(events[j].what) + 1 = StepRank(events[i].what)
    /\ \A i \in StepsRun : ~events[i].ok => i = Len(events)
    /\ password # "None" => Happened("reload", TRUE)
    /\ StepFailed => password = "None"
C30_Witness ==
  /\ method = "create" /\ Returned
  /\ Happened("vhost", TRUE) /\ Happened("database", FALSE)
  /\ password = "None"

====
